---------------------------- MODULE Spec2Model ----------------------------
(***************************************************************************)
(* Yubikey-backed virtual MFA device lifecycle of aws-vault:               *)
(*   vault/yubikey.go     Yubikey.Register / Yubikey.Remove                *)
(*   mfa/iamyubikey.go    MFA.Add / MFA.Delete and their steps             *)
(*   cli/remove_yubikey.go, cli/add_yubikey.go   the two commands          *)
(* Strings are sequences of one-character strings, so that the ARN         *)
(* conversions are computed character by character as the code does.       *)
(***************************************************************************)
EXTENDS Integers, Sequences, FiniteSets, TLC

\* ------------------------------------------------------------------ bounds
\* Largest wall-clock reading (seconds) the model follows.
MaxClock == 30
\* Largest number of seconds that pass between two readings of the clock.
MaxElapse == 1
\* Largest number of sessions cached under one profile.
MaxSessions == 2
\* Number of commands run one after the other.
MaxCmds == 3
\* Largest number of pieces the resource part of an identifier is made of.
MaxNameTokens == 3

\* ----------------------------------------------------------------- strings
\* strings.HasPrefix
HasPrefix(s, p) ==
    /\ Len(p) <= Len(s)
    /\ SubSeq(s, 1, Len(p)) = p

\* strings.Index: the first position where sub occurs in s, 0 when it does not
\* (Go returns -1; positions here are 1-based).
Index(s, sub) ==
    LET hits == {i \in 1..(Len(s) - Len(sub) + 1) : SubSeq(s, i, i + Len(sub) - 1) = sub}
    IN  IF hits = {} THEN 0 ELSE CHOOSE i \in hits : \A j \in hits : i <= j

\* strings.Replace(s, old, new, 1): the first occurrence of old replaced by new.
Replace1(s, old, new) ==
    LET i == Index(s, old)
    IN  IF i = 0 THEN s
        ELSE SubSeq(s, 1, i - 1) \o new \o SubSeq(s, i + Len(old), Len(s))

\* strings.SplitN(s, sep, n) for a one-character sep: at most n sections, the
\* last one holding the unsplit rest.
RECURSIVE SplitN(_, _, _)
SplitN(s, sep, n) ==
    LET i == Index(s, <<sep>>)
    IN  IF n <= 1 \/ i = 0 THEN <<s>>
        ELSE <<SubSeq(s, 1, i - 1)>> \o SplitN(SubSeq(s, i + 1, Len(s)), sep, n - 1)

\* strings.Join
RECURSIVE Join(_, _)
Join(parts, sep) ==
    IF Len(parts) = 0 THEN <<>>
    ELSE IF Len(parts) = 1 THEN parts[1]
    ELSE parts[1] \o sep \o Join(Tail(parts), sep)

\* --------------------------------------------------------------- constants
arnPrefix == <<"a", "r", "n", ":">>
arnSections == 6
userSegment == <<":", "u", "s", "e", "r", "/">>
mfaSegment == <<":", "m", "f", "a", "/">>
issuer == <<"a", "w", "s">>
\* 30*time.Second, in seconds
otpStep == 30

\* arn.Parse: the prefix "arn:" and six ':'-separated sections.
arnParse(s) ==
    LET sections == SplitN(s, ":", arnSections)
    IN  IF ~HasPrefix(s, arnPrefix) THEN [ok |-> FALSE, sections |-> <<>>]
        ELSE IF Len(sections) # arnSections THEN [ok |-> FALSE, sections |-> <<>>]
        ELSE [ok |-> TRUE, sections |-> sections]

\* arn.ARN.String: "arn:" + partition:service:region:account:resource
arnString(a) ==
    arnPrefix \o Join(Tail(a.sections), <<":">>)

\* A slip: the first two ":user/" are replaced.
callerIdentityToSerial_twice(i) ==
    LET a == arnParse(i)
    IN  IF ~a.ok THEN [ok |-> FALSE, serial |-> <<>>]
        ELSE [ok |-> TRUE,
              serial |-> Replace1(Replace1(arnString(a), userSegment, mfaSegment),
                                  userSegment, mfaSegment)]

\* callerIdentityToSerial: the caller identity ARN with its first ":user/"
\* replaced by ":mfa/"; an error when the ARN does not parse.
callerIdentityToSerial(i) ==
    LET a == arnParse(i)
    IN  IF ~a.ok THEN [ok |-> FALSE, serial |-> <<>>]
        ELSE [ok |-> TRUE, serial |-> Replace1(arnString(a), userSegment, mfaSegment)]

\* A slip: the name is the serial alone.
SerialToName_bare(i) ==
    LET a == arnParse(i)
    IN  IF ~a.ok THEN [ok |-> FALSE, name |-> <<>>]
        ELSE [ok |-> TRUE, name |-> arnString(a)]

\* SerialToName: "aws" and the serial joined by ":"; an error when the serial
\* does not parse as an ARN.
SerialToName(i) ==
    LET a == arnParse(i)
    IN  IF ~a.ok THEN [ok |-> FALSE, name |-> <<>>]
        ELSE [ok |-> TRUE, name |-> Join(<<issuer, arnString(a)>>, <<":">>)]


\* ------------------------------------------------------------------ base32
\* The standard base32 alphabet (RFC 4648), values 0..31 by position.
encodeStd ==
    <<"A", "B", "C", "D", "E", "F", "G", "H", "I", "J", "K", "L", "M", "N", "O", "P",
      "Q", "R", "S", "T", "U", "V", "W", "X", "Y", "Z", "2", "3", "4", "5", "6", "7">>
StdPadding == "="

\* The 5 bits of a value 0..31, most significant first.
Bits5(v) ==
    <<(v \div 16) % 2, (v \div 8) % 2, (v \div 4) % 2, (v \div 2) % 2, v % 2>>

\* The byte made of 8 bits, most significant first.
ByteOf(b) ==
    128 * b[1] + 64 * b[2] + 32 * b[3] + 16 * b[4] + 8 * b[5] + 4 * b[6] + 2 * b[7] + b[8]

RECURSIVE BitsOf(_)
BitsOf(chars) ==
    IF Len(chars) = 0 THEN <<>>
    ELSE Bits5(Index(encodeStd, <<Head(chars)>>) - 1) \o BitsOf(Tail(chars))

\* One 8-character quantum: its data characters, then padding to the end.
\* A quantum of 2, 4, 5, 7 or 8 data characters holds 1, 2, 3, 4 or 5 bytes.
DecodeQuantum(q, last) ==
    LET pad == Index(q, <<StdPadding>>)
        n == IF pad = 0 THEN 8 ELSE pad - 1
        data == SubSeq(q, 1, n)
        nbytes == CASE n = 2 -> 1 [] n = 4 -> 2 [] n = 5 -> 3 [] n = 7 -> 4
                    [] n = 8 -> 5 [] OTHER -> 0
        bits == BitsOf(data)
    IN  IF \/ nbytes = 0
           \/ (n < 8 /\ ~last)
           \/ \E i \in (n + 1)..8 : q[i] # StdPadding
           \/ \E i \in 1..n : Index(encodeStd, <<data[i]>>) = 0
        THEN [ok |-> FALSE, bytes |-> <<>>]
        ELSE [ok |-> TRUE,
              bytes |-> [k \in 1..nbytes |-> ByteOf(SubSeq(bits, 8 * k - 7, 8 * k))]]

\* base32.StdEncoding.DecodeString: the bytes of a padded base32 string, or an
\* error on a character outside the alphabet, misplaced padding or a short
\* final quantum.
RECURSIVE DecodeString(_)
DecodeString(s) ==
    IF Len(s) = 0 THEN [ok |-> TRUE, bytes |-> <<>>]
    ELSE IF Len(s) < 8 THEN [ok |-> FALSE, bytes |-> <<>>]
    ELSE LET q == DecodeQuantum(SubSeq(s, 1, 8), Len(s) = 8)
             rest == DecodeString(SubSeq(s, 9, Len(s)))
         IN  IF q.ok /\ rest.ok THEN [ok |-> TRUE, bytes |-> q.bytes \o rest.bytes]
             ELSE [ok |-> FALSE, bytes |-> <<>>]

\* The 8 bits of a byte, most significant first.
Bits8(v) ==
    <<(v \div 128) % 2, (v \div 64) % 2, (v \div 32) % 2, (v \div 16) % 2,
      (v \div 8) % 2, (v \div 4) % 2, (v \div 2) % 2, v % 2>>

RECURSIVE BitsOfBytes(_)
BitsOfBytes(bytes) ==
    IF Len(bytes) = 0 THEN <<>>
    ELSE Bits8(Head(bytes)) \o BitsOfBytes(Tail(bytes))

\* The value 0..31 of 5 bits, most significant first.
ValueOf(b) == 16 * b[1] + 8 * b[2] + 4 * b[3] + 2 * b[4] + b[5]

\* One group of 1..5 bytes as 8 characters: 2, 4, 5, 7 or 8 data characters
\* (the last one filled up with zero bits), then padding.
EncodeQuantum(bytes) ==
    LET n == CASE Len(bytes) = 1 -> 2 [] Len(bytes) = 2 -> 4 [] Len(bytes) = 3 -> 5
               [] Len(bytes) = 4 -> 7 [] OTHER -> 8
        bits == BitsOfBytes(bytes) \o [i \in 1..(40 - 8 * Len(bytes)) |-> 0]
    IN  [k \in 1..8 |-> IF k <= n THEN encodeStd[ValueOf(SubSeq(bits, 5 * k - 4, 5 * k)) + 1]
                        ELSE StdPadding]

\* base32.StdEncoding.EncodeToString: the padded base32 string of the bytes.
RECURSIVE EncodeToString(_)
EncodeToString(bytes) ==
    IF Len(bytes) = 0 THEN <<>>
    ELSE IF Len(bytes) <= 5 THEN EncodeQuantum(bytes)
    ELSE EncodeQuantum(SubSeq(bytes, 1, 5)) \o EncodeToString(SubSeq(bytes, 6, Len(bytes)))

\* ------------------------------------------------------------------ inputs
\* The IAM user names given on the command line.
Users == {<<"a">>, <<"b">>}
\* The profile names given on the command line.
Profiles == {"jonsmith", "otherprofile"}
\* The characters of a profile name.
Chars(p) ==
    IF p = "jonsmith" THEN <<"j", "o", "n", "s", "m", "i", "t", "h">>
    ELSE <<"o", "t", "h", "e", "r", "p", "r", "o", "f", "i", "l", "e">>
\* "arn:aws:iam::1"
accountArn == arnPrefix \o <<"a", "w", "s", ":", "i", "a", "m", ":", ":", "1">>
\* The identities the security-token service reports for the credentials in
\* use: an IAM user, or the session of an assumed role.
Identities ==
    {accountArn \o userSegment \o <<"a">>}
        \cup {arnPrefix \o <<"a", "w", "s", ":", "s", "t", "s", ":", ":", "1", ":",
                             "a", "s", "s", "u", "m", "e", "d", "-",
                             "r", "o", "l", "e", "/", "r", "/", "s">>}
\* The base32 seeds the remote create call hands out: "ME======" is well
\* formed, "M1======" is not.
Seeds ==
    {<<"M", "E", "=", "=", "=", "=", "=", "=">>,
     <<"M", "1", "=", "=", "=", "=", "=", "=">>}

VARIABLES
    clock,       \* the wall clock, in seconds
    iamDevices,  \* remote: the virtual MFA devices that exist, [serial, seed]
    iamEnabled,  \* remote: the devices enabled for a user, [user, serial]
    ykEntries,   \* the OTP device: the stored credentials, [name, secret]
    sessions,    \* the keyring: the cached sessions, [profile, n]
    pc,          \* where the running command is; "idle" between commands
    cmd,         \* the running (or last) command and its inputs
    calls,       \* the calls the running (or last) command made, in order
    serial,      \* MFA.Add / MFA.Delete: the serial in use
    secret,      \* MFA.Add: the decoded secret
    otp1,        \* MFA.enable: the first code
    otp2,        \* MFA.enable: the second code
    addRet,      \* what MFA.Add returned to the running (or last) command
    delRet,      \* what MFA.Delete returned to the running (or last) command
    ret,         \* what Register / Remove returned
    prev,        \* the command before the running one: what it was and how it went
    start,       \* the remote system, the device and the keyring as the command found them
    ncmd,        \* the number of commands started
    added,       \* the serial and the secret MFA.Add returned besides its error
    out          \* what the running (or last) command wrote to the terminal and the log

vars ==
    <<clock, iamDevices, iamEnabled, ykEntries, sessions, pc, cmd, calls, serial,
      secret, otp1, otp2, addRet, delRet, ret, prev, start, ncmd, added, out>>

world == <<clock, iamDevices, iamEnabled, ykEntries, sessions>>
locals == <<serial, secret, otp1, otp2>>

\* The remote system, the device and the keyring as they are now.
Snapshot ==
    [iamDevices |-> iamDevices, iamEnabled |-> iamEnabled, ykEntries |-> ykEntries,
     sessions |-> sessions]

\* ------------------------------------------------------------------ values
\* An error value: the step that failed and what the failing call reported.
Err(step, cause) == [step |-> step, cause |-> cause]
\* A nil error.
Nil == Err("", "nil")
\* No return yet.
NotReturned == Err("", "none")
IsErr(e) == e # Nil /\ e # NotReturned

NoString == <<>>
NoOtp == [secret |-> <<>>, window |-> -1]
\* A nil serial and a nil secret.
NoAdded == [serial |-> NoString, secret |-> <<>>]
NoCmd ==
    [kind |-> "none", Username |-> NoString, ProfileName |-> "", SectionName |-> "",
     caller |-> NoString]

\* What is kept of a command that ended: its inputs, its serial, and whether MFA.Add or
\* MFA.Delete ran to its end in it and succeeded.
Outcome(e) == IF e = NotReturned THEN "none" ELSE IF e = Nil THEN "nil" ELSE "error"
Summary(c, sn, add, del) ==
    [kind |-> c.kind, Username |-> c.Username, caller |-> c.caller, serial |-> sn,
     Add |-> Outcome(add), Delete |-> Outcome(del)]

\* One call to a collaborator: who was called with what, and what it reported.
Call(op, arg, user, at, res) ==
    [op |-> op, arg |-> arg, user |-> user, at |-> at, code1 |-> NoOtp, code2 |-> NoOtp,
     profile |-> "", res |-> res]

\* One piece of output: where it went, which statement wrote it, and the
\* values formatted into it (one-time codes, text, a count).
Output(stream, what, codes, text, n) ==
    [stream |-> stream, what |-> what, codes |-> codes, text |-> text, n |-> n]

\* The calls of the running command to collaborator op.
CallsTo(op) == {i \in 1..Len(calls) : calls[i].op = op}

\* ------------------------------------------------------------ collaborators
\* A remote call can always fail for a reason of its own: with a coded remote
\* error, or with an error that is no awserr.Error at all.
RemoteFailures == {"AccessDenied", "NotAwsErr"}

\* iam.DeactivateMFADevice: the device stops being enabled for the user;
\* NoSuchEntity when it is not enabled for that user.
DeactivateOutcomes(user, sn) ==
    (IF [user |-> user, serial |-> sn] \in iamEnabled THEN {"ok"} ELSE {"NoSuchEntity"})
        \cup RemoteFailures

\* iam.DeleteVirtualMFADevice: the device stops existing; NoSuchEntity when
\* there is none, DeleteConflict while it is enabled for a user.
DeleteOutcomes(sn) ==
    (IF \A d \in iamDevices : d.serial # sn THEN {"NoSuchEntity"}
     ELSE IF \E e \in iamEnabled : e.serial = sn THEN {"DeleteConflict"}
     ELSE {"ok"})
        \cup RemoteFailures

\* sts.GetCallerIdentity: the identity of the credentials in use.
CallerIdentityOutcomes == {"ok"} \cup RemoteFailures

\* OtpDevice.Delete (mfa/device): removes the named entry; DeviceNotFoundError
\* when there is none; any other device error leaves the entry in place.
DeviceDeleteOutcomes(name) ==
    (IF \E e \in ykEntries : e.name = name THEN {"ok"} ELSE {"DeviceNotFoundError"})
        \cup {"DeviceCommunicationError"}

\* KeyringSessions.Delete: removes every cached session keyed by the profile
\* and reports how many there were.
SessionsOf(profile) == {s \in sessions : s.profile = profile}
SessionDeleteOutcomes == {"ok", "KeyringError"}

\* session.NewSessionWithOptions, yubikey.New
OpenOutcomes == {"ok", "error"}

\* -------------------------------------------------------------------- init
\* The sessions cached when the program starts: as many as one profile can
\* hold under the first profile, one or none under the other.
InitialSessions ==
    {[p \in Profiles |-> IF p = "jonsmith" THEN MaxSessions ELSE k] : k \in 0..1}

\* The program starts one second before a 30-second window ends, with no
\* device enrolled.
Init ==
    /\ clock = otpStep - 1
    /\ iamDevices = {}
    /\ iamEnabled = {}
    /\ ykEntries = {}
    /\ \E cached \in InitialSessions :
           sessions = {s \in [profile : Profiles, n : 1..MaxSessions] :
                           s.n <= cached[s.profile]}
    /\ pc = "idle"
    /\ cmd = NoCmd
    /\ calls = <<>>
    /\ serial = NoString
    /\ secret = <<>>
    /\ otp1 = NoOtp
    /\ otp2 = NoOtp
    /\ addRet = NotReturned
    /\ delRet = NotReturned
    /\ ret = NotReturned
    /\ prev = Summary(NoCmd, NoString, NotReturned, NotReturned)
    /\ start = Snapshot
    /\ ncmd = 0
    /\ added = NoAdded
    /\ out = <<>>

\* A command starts: its inputs are set, what the last command left is cleared.
Begin(c, first) ==
    /\ pc = "idle"
    /\ ncmd < MaxCmds
    /\ ncmd' = ncmd + 1
    /\ cmd' = c
    /\ pc' = first
    /\ calls' = <<>>
    /\ serial' = NoString
    /\ secret' = <<>>
    /\ otp1' = NoOtp
    /\ otp2' = NoOtp
    /\ addRet' = NotReturned
    /\ delRet' = NotReturned
    /\ ret' = NotReturned
    /\ prev' = Summary(cmd, serial, addRet, delRet)
    /\ start' = Snapshot
    /\ added' = NoAdded
    /\ out' = <<>>
    /\ UNCHANGED world

\* Register / Remove returns e to the command, which ends.
Return(e) ==
    /\ ret' = e
    /\ pc' = "idle"

\* ------------------------------------------------------------------ remove
\* awsConfigFile.ProfileSection(name): the section of the named profile,
\* which carries that name.
ProfileSection(name) == [Name |-> name]

\* RemoveYubikeyCommand: credentials from the environment, the profile's
\* section, then Yubikey.Remove(input.ProfileName, val). Without credentials
\* or without the profile the command ends (app.Fatalf) having done nothing.
RemoveYubikeyCommand ==
    \E u \in Users, p \in Profiles, id \in Identities :
        Begin([kind |-> "remove", Username |-> u, ProfileName |-> p,
               SectionName |-> ProfileSection(p).Name, caller |-> id],
              "Remove_session")

\* Yubikey.Remove: session.NewSessionWithOptions, then the log line with the
\* end of the access key id
Remove_session ==
    /\ pc = "Remove_session"
    /\ \E r \in OpenOutcomes :
        /\ calls' = Append(calls, Call("NewSession", NoString, NoString, 0, r))
        /\ IF r # "ok" THEN Return(Err("NewSession", r)) /\ out' = out
           ELSE /\ out' = Append(out, Output("log", "Found access key", <<>>, NoString, 0))
                /\ pc' = "Remove_device"
                /\ ret' = ret
    /\ UNCHANGED <<world, locals, cmd, addRet, added, delRet, prev, start, ncmd>>

\* Yubikey.Remove: yubikey.New, mfa.New
Remove_device ==
    /\ pc = "Remove_device"
    /\ \E r \in OpenOutcomes :
        /\ calls' = Append(calls, Call("yubikey.New", NoString, NoString, 0, r))
        /\ IF r # "ok" THEN Return(Err("yubikey.New", r))
           ELSE pc' = "Delete_identity" /\ ret' = ret
    /\ UNCHANGED <<world, locals, cmd, addRet, added, delRet, prev, start, ncmd, out>>

\* A slip: the error of MFA.Delete is not looked at.
DeleteReturns_unchecked(e) ==
    /\ delRet' = e
    /\ pc' = "Remove_sessions"
    /\ ret' = ret

\* MFA.Delete returns e; Yubikey.Remove returns an error at once and goes on
\* to the session store otherwise.
DeleteReturns(e) ==
    /\ delRet' = e
    /\ IF e # Nil THEN Return(e)
       ELSE pc' = "Remove_sessions" /\ ret' = ret

\* A slip: the remote delete call is made first.
firstTeardownStep_delete == "delete_remote"

\* MFA.Delete: the step taken first once the serial is known.
firstTeardownStep == "deactivate"

\* MFA.Delete: sts.GetCallerIdentity, then callerIdentityToSerial
Delete_identity ==
    /\ pc = "Delete_identity"
    /\ \E r \in CallerIdentityOutcomes :
        LET conv == callerIdentityToSerial(cmd.caller)
        IN  /\ calls' = Append(calls, Call("GetCallerIdentity", NoString, NoString, 0, r))
            /\ IF r # "ok"
               THEN DeleteReturns(Err("GetCallerIdentity", r)) /\ serial' = serial
               ELSE IF ~conv.ok
               THEN DeleteReturns(Err("callerIdentityToSerial", "parse")) /\ serial' = serial
               ELSE /\ serial' = conv.serial
                    /\ pc' = firstTeardownStep
                    /\ UNCHANGED <<delRet, ret>>
    /\ UNCHANGED <<world, secret, otp1, otp2, cmd, addRet, added, prev, start, ncmd, out>>

\* A slip: only a coded error is looked at, any other error is passed over.
remoteCallFails_codedOnly(res) ==
    /\ res # "ok"
    /\ res # "NotAwsErr"
    /\ res # "NoSuchEntity"

\* MFA.deactivate, MFA.delete: an error of the remote call is passed over only
\* when it is an awserr.Error with code NoSuchEntity.
remoteCallFails(res) ==
    /\ res # "ok"
    /\ (res = "NotAwsErr" \/ res # "NoSuchEntity")

\* MFA.deactivate: iam.DeactivateMFADevice(serial, username)
deactivate ==
    /\ pc = "deactivate"
    /\ \E r \in DeactivateOutcomes(cmd.Username, serial) :
        /\ calls' = Append(calls, Call("DeactivateMFADevice", serial, cmd.Username, 0, r))
        /\ iamEnabled' = IF r = "ok"
                         THEN iamEnabled \ {[user |-> cmd.Username, serial |-> serial]}
                         ELSE iamEnabled
        /\ IF remoteCallFails(r) THEN DeleteReturns(Err("deactivate", r))
           ELSE pc' = "delete_remote" /\ UNCHANGED <<delRet, ret>>
    /\ UNCHANGED <<clock, iamDevices, ykEntries, sessions, locals, cmd, addRet, added, prev, start, ncmd, out>>

\* MFA.delete: iam.DeleteVirtualMFADevice(serial)
delete_remote ==
    /\ pc = "delete_remote"
    /\ \E r \in DeleteOutcomes(serial) :
        /\ calls' = Append(calls, Call("DeleteVirtualMFADevice", serial, NoString, 0, r))
        /\ iamDevices' = IF r = "ok" THEN {d \in iamDevices : d.serial # serial}
                         ELSE iamDevices
        /\ IF remoteCallFails(r) THEN DeleteReturns(Err("delete", r))
           ELSE pc' = "delete_device" /\ UNCHANGED <<delRet, ret>>
    /\ UNCHANGED <<clock, iamEnabled, ykEntries, sessions, locals, cmd, addRet, added, prev, start, ncmd, out>>

\* A slip: no error of device.Delete is looked at.
deviceDeleteFails_never(res) == FALSE

\* MFA.delete: any error of device.Delete is returned.
deviceDeleteFails(res) == res # "ok"

\* MFA.delete: SerialToName, then device.Delete(name); its error is printed
\* and returned
delete_device ==
    /\ pc = "delete_device"
    /\ LET conv == SerialToName(serial)
       IN  IF ~conv.ok
           THEN /\ DeleteReturns(Err("SerialToName", "parse"))
                /\ UNCHANGED <<calls, ykEntries, out>>
           ELSE \E r \in DeviceDeleteOutcomes(conv.name) :
                /\ calls' = Append(calls, Call("device.Delete", conv.name, NoString, 0, r))
                /\ ykEntries' = IF r = "ok" THEN {e \in ykEntries : e.name # conv.name}
                                ELSE ykEntries
                /\ IF deviceDeleteFails(r)
                   THEN /\ out' = Append(out, Output("stdout", r, <<>>, NoString, 0))
                        /\ DeleteReturns(Err("device.Delete", r))
                   ELSE /\ out' = out
                        /\ DeleteReturns(Nil)
    /\ UNCHANGED <<clock, iamDevices, iamEnabled, sessions, locals, cmd, addRet, added, prev, start, ncmd>>

\* A slip: the sessions of one fixed profile are deleted.
sessionProfile_fixed(c) == "otherprofile"

\* Yubikey.Remove: the profile whose sessions are deleted.
sessionProfile(c) == c.SectionName

\* A slip: more than one deleted session counts as a failure.
sessionDeleteFails_anomaly(res, n) == res # "ok" \/ n > 1

\* Yubikey.Remove: krs.Delete failed when it returned an error, whatever the
\* count.
sessionDeleteFails(res, n) == res # "ok"

\* Yubikey.Remove: krs.Delete(y.ProfileSection.Name); the count is only logged.
Remove_sessions ==
    /\ pc = "Remove_sessions"
    /\ \E r \in SessionDeleteOutcomes :
        LET key == sessionProfile(cmd)
            n == Cardinality(SessionsOf(key))
        IN  /\ calls' = Append(calls, [Call("krs.Delete", NoString, NoString, n, r)
                                      EXCEPT !.profile = key])
            /\ sessions' = IF r = "ok" THEN sessions \ SessionsOf(key) ELSE sessions
            /\ out' = IF r = "ok" /\ n = 1
                      THEN Append(out, Output("log", "deleted session", <<>>, NoString, 0))
                      ELSE IF r = "ok" /\ n > 1
                      THEN Append(out, Output("log", "deleted sessions", <<>>, NoString, n))
                      ELSE out
            /\ IF sessionDeleteFails(r, n) THEN Return(Err("krs.Delete", r))
               ELSE Return(Nil)
    /\ UNCHANGED <<clock, iamDevices, iamEnabled, ykEntries, locals, cmd, addRet, added, delRet,
                   prev, start, ncmd>>

\* ---------------------------------------------------------------- register
\* AddYubikeyCommand: the profile's section, then Yubikey.Register(p.Name,
\* input.RequireTouch). Without the profile the command ends (app.Fatalf).
\* Nothing in Register asks the security-token service who the caller is.
AddYubikeyCommand ==
    \E u \in Users, p \in Profiles :
        Begin([kind |-> "register", Username |-> u, ProfileName |-> p,
               SectionName |-> ProfileSection(p).Name, caller |-> NoString],
              "Register_retrieve")

\* KeyringProvider.Retrieve, GetUsernameFromSession
RetrieveOutcomes == {"ok", "error"}

\* Yubikey.Register: provider.Retrieve
Register_retrieve ==
    /\ pc = "Register_retrieve"
    /\ \E r \in RetrieveOutcomes :
        /\ calls' = Append(calls, Call("Retrieve", NoString, NoString, 0, r))
        /\ IF r # "ok" THEN Return(Err("Retrieve", r))
           ELSE pc' = "Register_session" /\ ret' = ret
    /\ UNCHANGED <<world, locals, cmd, addRet, added, delRet, prev, start, ncmd, out>>

\* Yubikey.Register: session.NewSessionWithOptions; its error is not looked
\* at, it is overwritten by the next call's.
Register_session ==
    /\ pc = "Register_session"
    /\ \E r \in OpenOutcomes :
        /\ calls' = Append(calls, Call("NewSession", NoString, NoString, 0, r))
        /\ pc' = "Register_username"
    /\ UNCHANGED <<world, locals, cmd, addRet, added, delRet, ret, prev, start, ncmd, out>>

\* GetUsernameFromSession(sess): asks the remote system for the current user;
\* it cannot succeed without a session.
UsernameOutcomes ==
    IF calls[Len(calls)].res = "ok" THEN {"ok", "error"} ELSE {"error"}

\* Yubikey.Register: GetUsernameFromSession, then the log line with the end
\* of the access key id and the current user
Register_username ==
    /\ pc = "Register_username"
    /\ \E r \in UsernameOutcomes :
        /\ calls' = Append(calls, Call("GetUsernameFromSession", NoString, NoString, 0, r))
        /\ IF r # "ok" THEN Return(Err("GetUsernameFromSession", r)) /\ out' = out
           ELSE /\ out' = Append(out, Output("log", "Found access key", <<>>, NoString, 0))
                /\ pc' = "Register_device"
                /\ ret' = ret
    /\ UNCHANGED <<world, locals, cmd, addRet, added, delRet, prev, start, ncmd>>

\* Yubikey.Register: yubikey.New, RequireAddTouch, mfa.New
Register_device ==
    /\ pc = "Register_device"
    /\ \E r \in OpenOutcomes :
        /\ calls' = Append(calls, Call("yubikey.New", NoString, NoString, 0, r))
        /\ IF r # "ok" THEN Return(Err("yubikey.New", r))
           ELSE pc' = "create" /\ ret' = ret
    /\ UNCHANGED <<world, locals, cmd, addRet, added, delRet, prev, start, ncmd, out>>

\* A slip: MFA.Add hands back the serial and the secret it has with an error
\* too.
AddReturns_partial(e) ==
    /\ addRet' = e
    /\ added' = [serial |-> serial, secret |-> secret]
    /\ IF e # Nil THEN Return(e)
       ELSE pc' = "Register_qr" /\ ret' = ret

\* MFA.Add returns the serial, the secret and no error, or neither and the
\* error e; Yubikey.Register returns an error at once and goes on to the QR
\* code otherwise.
AddReturns(e) ==
    /\ addRet' = e
    /\ added' = IF e = Nil THEN [serial |-> serial, secret |-> secret] ELSE NoAdded
    /\ IF e # Nil THEN Return(e)
       ELSE pc' = "Register_qr" /\ ret' = ret

\* iam.CreateVirtualMFADevice(name): a new device "…:mfa/<name>" in the
\* caller's account with a fresh seed; EntityAlreadyExists when there is one.
createdSerial(name) == accountArn \o mfaSegment \o name
CreateOutcomes(name) ==
    (IF \E d \in iamDevices : d.serial = createdSerial(name) THEN {"EntityAlreadyExists"}
     ELSE {"ok"})
        \cup RemoteFailures

\* A slip: the error of DecodeString is not looked at.
create_unchecked ==
    /\ pc = "create"
    /\ \E r \in CreateOutcomes(cmd.Username), seed \in Seeds :
        LET sn == createdSerial(cmd.Username)
            dec == DecodeString(seed)
        IN  /\ calls' = Append(calls, Call("CreateVirtualMFADevice", NoString,
                                           cmd.Username, 0, r))
            /\ IF r # "ok"
               THEN /\ AddReturns(Err("create", r))
                    /\ UNCHANGED <<iamDevices, serial, secret>>
               ELSE /\ iamDevices' = iamDevices \cup {[serial |-> sn, seed |-> seed]}
                    /\ serial' = sn
                    /\ secret' = dec.bytes
                    /\ pc' = "enable_add"
                    /\ UNCHANGED <<addRet, added, ret>>
    /\ UNCHANGED <<clock, iamEnabled, ykEntries, sessions, otp1, otp2, cmd, delRet, prev, start, ncmd, out>>

\* MFA.create: iam.CreateVirtualMFADevice, then base32 DecodeString
create ==
    /\ pc = "create"
    /\ \E r \in CreateOutcomes(cmd.Username), seed \in Seeds :
        LET sn == createdSerial(cmd.Username)
            dec == DecodeString(seed)
        IN  /\ calls' = Append(calls, Call("CreateVirtualMFADevice", NoString,
                                           cmd.Username, 0, r))
            /\ IF r # "ok"
               THEN /\ AddReturns(Err("create", r))
                    /\ UNCHANGED <<iamDevices, serial, secret>>
               ELSE /\ iamDevices' = iamDevices \cup {[serial |-> sn, seed |-> seed]}
                    /\ IF ~dec.ok
                       THEN /\ AddReturns(Err("decode", "CorruptInputError"))
                            /\ UNCHANGED <<serial, secret>>
                       ELSE /\ serial' = sn
                            /\ secret' = dec.bytes
                            /\ pc' = "enable_add"
                            /\ UNCHANGED <<addRet, added, ret>>
    /\ UNCHANGED <<clock, iamEnabled, ykEntries, sessions, otp1, otp2, cmd, delRet, prev, start, ncmd, out>>

\* OtpDevice.Add (mfa/device): stores the secret under the name, or fails
\* with DeviceStorageError.
DeviceAddOutcomes == {"ok", "DeviceStorageError"}

\* MFA.enable: SerialToName, then device.Add(name, secret)
enable_add ==
    /\ pc = "enable_add"
    /\ LET conv == SerialToName(serial)
       IN  IF ~conv.ok
           THEN /\ AddReturns(Err("SerialToName", "parse"))
                /\ UNCHANGED <<calls, ykEntries>>
           ELSE \E r \in DeviceAddOutcomes :
                /\ calls' = Append(calls, Call("device.Add", conv.name, NoString, 0, r))
                /\ IF r # "ok"
                   THEN AddReturns(Err("device.Add", r)) /\ ykEntries' = ykEntries
                   ELSE /\ ykEntries' = {e \in ykEntries : e.name # conv.name}
                                            \cup {[name |-> conv.name, secret |-> secret]}
                        /\ pc' = "enable_otp1"
                        /\ UNCHANGED <<addRet, added, ret>>
    /\ UNCHANGED <<clock, iamDevices, iamEnabled, sessions, locals, cmd, delRet, prev, start, ncmd, out>>

\* time.Now(): a reading of the wall clock, which has moved on by some
\* seconds since the reading before.
Readings == {t \in clock..(clock + MaxElapse) : t <= MaxClock} \cup {clock}

\* The time-based code of a secret for the 30-second window holding a time.
TOTP(sec, at) == [secret |-> sec, window |-> at \div otpStep]

\* OtpDevice.GetOtp (mfa/device): the code of the named entry for the window
\* holding the time; DeviceNotFoundError when the name is unknown.
GetOTPOutcomes(name) ==
    (IF \E e \in ykEntries : e.name = name THEN {"ok"} ELSE {"DeviceNotFoundError"})
        \cup {"DeviceCommunicationError"}
GetOTP(at, name) ==
    TOTP((CHOOSE e \in ykEntries : e.name = name).secret, at)

\* A slip: the first code is asked for the time 30 seconds ahead too.
firstOtpTime_ahead(now) == now + otpStep

\* MFA.enable: the time arguments of the two device.GetOTP calls, from the
\* clock reading taken for each.
firstOtpTime(now) == now
secondOtpTime(now) == now + otpStep

\* MFA.enable: otp1 := device.GetOTP(time.Now(), name)
enable_otp1 ==
    /\ pc = "enable_otp1"
    /\ \E now \in Readings :
        LET name == SerialToName(serial).name
            at == firstOtpTime(now)
        IN  \E r \in GetOTPOutcomes(name) :
            /\ clock' = now
            /\ calls' = Append(calls, Call("device.GetOTP", name, NoString, at, r))
            /\ IF r # "ok"
               THEN AddReturns(Err("first otp", r)) /\ otp1' = otp1
               ELSE /\ otp1' = GetOTP(at, name)
                    /\ pc' = "enable_otp2"
                    /\ UNCHANGED <<addRet, added, ret>>
    /\ UNCHANGED <<iamDevices, iamEnabled, ykEntries, sessions, serial, secret, otp2, cmd,
                   delRet, prev, start, ncmd, out>>

\* MFA.enable: otp2 := device.GetOTP(time.Now().Add(30*time.Second), name)
enable_otp2 ==
    /\ pc = "enable_otp2"
    /\ \E now \in Readings :
        LET name == SerialToName(serial).name
            at == secondOtpTime(now)
        IN  \E r \in GetOTPOutcomes(name) :
            /\ clock' = now
            /\ calls' = Append(calls, Call("device.GetOTP", name, NoString, at, r))
            /\ IF r # "ok"
               THEN AddReturns(Err("second otp", r)) /\ otp2' = otp2
               ELSE /\ otp2' = GetOTP(at, name)
                    /\ pc' = "enable_remote"
                    /\ UNCHANGED <<addRet, added, ret>>
    /\ UNCHANGED <<iamDevices, iamEnabled, ykEntries, sessions, serial, secret, otp1, cmd,
                   delRet, prev, start, ncmd, out>>

\* iam.EnableMFADevice(code1, code2, serial, user): the device becomes enabled
\* for the user when it exists, is not enabled yet, and the two codes are the
\* codes of its seed for two consecutive windows.
EnableOutcomes(c1, c2, sn) ==
    (IF \A d \in iamDevices : d.serial # sn THEN {"NoSuchEntity"}
     ELSE IF \E e \in iamEnabled : e.serial = sn THEN {"EntityAlreadyExists"}
     ELSE IF \E d \in iamDevices :
                /\ d.serial = sn
                /\ c1.secret = DecodeString(d.seed).bytes
                /\ c2.secret = c1.secret
                /\ c2.window = c1.window + 1
          THEN {"ok"}
     ELSE {"InvalidAuthenticationCode"})
        \cup RemoteFailures

\* A change of policy: a failed enablement takes the entry off the device again.
enable_remote_rollback ==
    /\ pc = "enable_remote"
    /\ \E r \in EnableOutcomes(otp1, otp2, serial) :
        /\ calls' = Append(calls, [Call("EnableMFADevice", serial, cmd.Username, 0, r)
                                     EXCEPT !.code1 = otp1, !.code2 = otp2])
        /\ iamEnabled' = IF r = "ok"
                         THEN iamEnabled \cup {[user |-> cmd.Username, serial |-> serial]}
                         ELSE iamEnabled
        /\ ykEntries' = IF r = "ok" THEN ykEntries
                        ELSE {e \in ykEntries : e.name # SerialToName(serial).name}
        /\ IF r # "ok" THEN AddReturns(Err("enable", r)) ELSE AddReturns(Nil)
    /\ out' = Append(out, Output("stdout", "enabled with codes", <<otp1, otp2>>, NoString, 0))
    /\ UNCHANGED <<clock, iamDevices, sessions, locals, cmd, delRet, prev, start, ncmd>>

\* A change of policy: a failed enablement is tried once more.
enable_remote_retry ==
    /\ pc = "enable_remote"
    /\ \E r \in EnableOutcomes(otp1, otp2, serial) :
        /\ calls' = Append(calls, [Call("EnableMFADevice", serial, cmd.Username, 0, r)
                                     EXCEPT !.code1 = otp1, !.code2 = otp2])
        /\ iamEnabled' = IF r = "ok"
                         THEN iamEnabled \cup {[user |-> cmd.Username, serial |-> serial]}
                         ELSE iamEnabled
        /\ IF r = "ok" THEN AddReturns(Nil)
           ELSE IF CallsTo("EnableMFADevice") = {} THEN UNCHANGED <<pc, addRet, added, ret>>
           ELSE AddReturns(Err("enable", r))
    /\ out' = Append(out, Output("stdout", "enabled with codes", <<otp1, otp2>>, NoString, 0))
    /\ UNCHANGED <<clock, iamDevices, ykEntries, sessions, locals, cmd, delRet, prev, start, ncmd>>

\* MFA.enable: the codes are printed, then iam.EnableMFADevice
enable_remote ==
    /\ pc = "enable_remote"
    /\ \E r \in EnableOutcomes(otp1, otp2, serial) :
        /\ calls' = Append(calls, [Call("EnableMFADevice", serial, cmd.Username, 0, r)
                                     EXCEPT !.code1 = otp1, !.code2 = otp2])
        /\ iamEnabled' = IF r = "ok"
                         THEN iamEnabled \cup {[user |-> cmd.Username, serial |-> serial]}
                         ELSE iamEnabled
        /\ IF r # "ok" THEN AddReturns(Err("enable", r)) ELSE AddReturns(Nil)
    /\ out' = Append(out, Output("stdout", "enabled with codes", <<otp1, otp2>>, NoString, 0))
    /\ UNCHANGED <<clock, iamDevices, ykEntries, sessions, locals, cmd, delRet, prev, start, ncmd>>

\* Yubikey.Register: the format and the issuer of the otpauth URI,
\* "otpauth://totp/%s@%s?secret=%s&issuer=%s" with "Amazon".
uriScheme == <<"o", "t", "p", "a", "u", "t", "h", ":", "/", "/", "t", "o", "t", "p", "/">>
uriAt == <<"@">>
uriSecret == <<"?", "s", "e", "c", "r", "e", "t", "=">>
uriIssuer == <<"&", "i", "s", "s", "u", "e", "r", "=">>
qrIssuer == <<"A", "m", "a", "z", "o", "n">>

\* Yubikey.Register: the URI made of the user name, the name of the profile's
\* section, the secret MFA.Add returned, base32-encoded, and the issuer.
otpauthURI(user, profile, sec) ==
    uriScheme \o user \o uriAt \o Chars(profile) \o uriSecret \o EncodeToString(sec)
        \o uriIssuer \o qrIssuer

\* Yubikey.Register: the otpauth URI is drawn as a QR code on the terminal,
\* then the serial is logged.
Register_qr ==
    /\ pc = "Register_qr"
    /\ out' = out \o <<Output("stderr", "qr", <<>>,
                               otpauthURI(cmd.Username, cmd.SectionName, added.secret), 0),
                        Output("log", "success", <<>>, added.serial, 0)>>
    /\ Return(Nil)
    /\ UNCHANGED <<world, locals, cmd, calls, addRet, added, delRet, prev, start, ncmd>>

\* -------------------------------------------------------------------- spec
Next ==
    \/ AddYubikeyCommand
    \/ Register_retrieve
    \/ Register_session
    \/ Register_username
    \/ Register_device
    \/ create
    \/ enable_add
    \/ enable_otp1
    \/ enable_otp2
    \/ enable_remote
    \/ Register_qr
    \/ RemoveYubikeyCommand
    \/ Remove_session
    \/ Remove_device
    \/ Delete_identity
    \/ deactivate
    \/ delete_remote
    \/ delete_device
    \/ Remove_sessions

Spec == Init /\ [][Next]_vars

\* ------------------------------------------------------------------- codec
\* The conversions of identifiers on their own: callerIdentityToSerial applied
\* to one identifier out of a set of well-formed and ill-formed ones.
Tokens == {<<"a">>, <<"/">>, <<":">>, userSegment, mfaSegment}
Names ==
    {Join(t, <<>>) : t \in UNION {[1..k -> Tokens] : k \in 1..MaxNameTokens}}
CodecInputs ==
    {accountArn \o userSegment \o n : n \in Names}
        \cup {accountArn \o mfaSegment \o n : n \in Names}
        \cup Names
        \cup Identities

CodecInit ==
    /\ clock = otpStep - 1
    /\ iamDevices = {}
    /\ iamEnabled = {}
    /\ ykEntries = {}
    /\ sessions = {}
    /\ pc = "codec"
    /\ \E u \in CodecInputs : cmd = [NoCmd EXCEPT !.caller = u]
    /\ calls = <<>>
    /\ serial = NoString
    /\ secret = <<>>
    /\ otp1 = NoOtp
    /\ otp2 = NoOtp
    /\ addRet = NotReturned
    /\ delRet = NotReturned
    /\ ret = NotReturned
    /\ prev = Summary(NoCmd, NoString, NotReturned, NotReturned)
    /\ start = Snapshot
    /\ ncmd = 0
    /\ added = NoAdded
    /\ out = <<>>

\* callerIdentityToSerial(cmd.caller): the serial, or an error.
Codec_callerIdentityToSerial ==
    /\ pc = "codec"
    /\ LET conv == callerIdentityToSerial(cmd.caller)
       IN  IF conv.ok THEN serial' = conv.serial /\ ret' = Nil
           ELSE serial' = serial /\ ret' = Err("callerIdentityToSerial", "parse")
    /\ pc' = "codec_done"
    /\ UNCHANGED <<world, secret, otp1, otp2, cmd, calls, addRet, added, delRet, prev, start,
                   ncmd, out>>

CodecNext == Codec_callerIdentityToSerial

CodecSpec == CodecInit /\ [][CodecNext]_vars

\* ------------------------------------------------------------------ claims
\* What a collaborator reports when nothing went wrong, or when what was to
\* be removed is gone already.
Harmless == {"ok", "NoSuchEntity", "DeviceNotFoundError"}
NothingWentWrong == \A i \in 1..Len(calls) : calls[i].res \in Harmless

\* What the remote teardown calls may report for MFA.Delete to go on.
Tolerated == {"ok", "NoSuchEntity"}

TeardownReturned == cmd.kind = "remove" /\ delRet # NotReturned

\* The running command is a second MFA.Delete for the identity whose
\* MFA.Delete just returned no error.
SecondTeardown ==
    /\ TeardownReturned
    /\ prev.kind = "remove"
    /\ prev.Delete = "nil"
    /\ prev.Username = cmd.Username
    /\ prev.caller = cmd.caller

\* C1: teardown idempotence. When MFA.Delete returned no error and is called
\* again for the same identity, and no collaborator reports more than that
\* the device and the entry are gone, the second call returns no error too.
C1_TeardownTwiceSucceeds ==
    (SecondTeardown /\ NothingWentWrong) => delRet = Nil

\* C2: when the remote steps of MFA.Delete went through and device.Delete
\* reports that the entry is absent, MFA.Delete returns no error; it returns
\* an error when device.Delete reports any other error.
C2_DeviceNotFoundTolerated ==
    \A i \in CallsTo("device.Delete") :
        /\ calls[i].res = "DeviceNotFoundError" => delRet = Nil
        /\ calls[i].res = "DeviceCommunicationError" => IsErr(delRet)

\* The step of MFA.Delete that makes a remote call, and the one after it.
stepOf(op) == IF op = "DeactivateMFADevice" THEN "deactivate" ELSE "delete"
callAfter(op) ==
    IF op = "DeactivateMFADevice" THEN "DeleteVirtualMFADevice" ELSE "device.Delete"
pcAfter(op) == IF op = "DeactivateMFADevice" THEN "delete_remote" ELSE "delete_device"

\* C3: a NoSuchEntity (or no error) from the remote deactivate or delete call
\* lets MFA.Delete go on with the next step; any other error, coded or not,
\* is returned at once and is the last call the command makes.
C3_RemoteErrorHandling ==
    \A i \in CallsTo("DeactivateMFADevice") \cup CallsTo("DeleteVirtualMFADevice") :
        IF calls[i].res \in Tolerated
        THEN /\ ~(IsErr(delRet) /\ delRet.step = stepOf(calls[i].op))
             /\ IF i = Len(calls) THEN pc = pcAfter(calls[i].op)
                ELSE calls[i + 1].op = callAfter(calls[i].op)
        ELSE /\ i = Len(calls)
             /\ delRet = Err(stepOf(calls[i].op), calls[i].res)
             /\ ret = delRet
             /\ pc = "idle"

\* A swallowed remote error is followed by the next call.
C3_Witness ==
    /\ Len(calls) = 5
    /\ calls[4].op = "DeactivateMFADevice" /\ calls[4].res = "NoSuchEntity"
    /\ calls[5].op = "DeleteVirtualMFADevice" /\ calls[5].res = "NotAwsErr"
    /\ IsErr(delRet)

\* C4: in MFA.Delete the remote deactivate call comes before the remote
\* delete call, device.Delete comes last, and each is made only after the
\* calls before it reported no error or NoSuchEntity; the device loses an
\* entry only by that last call.
C4_TeardownOrder ==
    /\ \A i \in CallsTo("DeleteVirtualMFADevice") :
           /\ i > 1
           /\ calls[i - 1].op = "DeactivateMFADevice"
           /\ calls[i - 1].res \in Tolerated
    /\ \A i \in CallsTo("device.Delete") :
           /\ i > 2
           /\ calls[i - 1].op = "DeleteVirtualMFADevice"
           /\ calls[i - 1].res \in Tolerated
           /\ \A j \in (i + 1)..Len(calls) : calls[j].op = "krs.Delete"
    /\ (\E e \in start.ykEntries : e \notin ykEntries)
           => \E i \in CallsTo("device.Delete") : calls[i].res = "ok"

\* The device entry was removed after both remote calls.
C4_Witness ==
    /\ cmd.kind = "remove"
    /\ \E i \in CallsTo("device.Delete") : calls[i].res = "ok"
    /\ start.ykEntries # {}
    /\ ykEntries = {}

\* C5: the time arguments of the two device.GetOTP calls of MFA.enable are
\* exactly 30 seconds apart, so the two codes are those of adjacent windows.
C5_CodesThirtySecondsApart ==
    \A i, j \in CallsTo("device.GetOTP") :
        i < j => /\ calls[j].at = calls[i].at + otpStep
                 /\ calls[j].at \div otpStep = (calls[i].at \div otpStep) + 1

\* C6: Yubikey.Remove called for a profile asks the session store to delete
\* the sessions of that profile and no other: every session cached under
\* another profile when the command started is still there, none was added,
\* and after the deletion none is left under the profile itself.
C6_SessionScoping ==
    cmd.kind = "remove" =>
        /\ \A i \in CallsTo("krs.Delete") : calls[i].profile = cmd.ProfileName
        /\ \A s \in start.sessions : s.profile # cmd.ProfileName => s \in sessions
        /\ sessions \subseteq start.sessions
        /\ (\E i \in CallsTo("krs.Delete") : calls[i].res = "ok")
               => SessionsOf(cmd.ProfileName) = {}

\* Two sessions under "jonsmith" were deleted, the one under "otherprofile"
\* is still there.
C6_Witness ==
    /\ cmd.kind = "remove"
    /\ cmd.ProfileName = "jonsmith"
    /\ ret = Nil
    /\ Cardinality({s \in start.sessions : s.profile = "jonsmith"}) = 2
    /\ sessions = {[profile |-> "otherprofile", n |-> 1]}

\* C7: the session store's delete is called once, after MFA.Delete returned
\* no error, and not at all otherwise; until MFA.Delete has returned no error
\* the session store is as the command found it.
C7_SessionsAfterTeardown ==
    /\ Cardinality(CallsTo("krs.Delete")) <= 1
    /\ CallsTo("krs.Delete") # {}
           => /\ delRet = Nil
              /\ calls[Len(calls)].op = "krs.Delete"
              /\ \E i \in CallsTo("device.Delete") : i = Len(calls) - 1
    /\ (pc = "idle" /\ delRet = Nil) => CallsTo("krs.Delete") # {}
    /\ delRet # Nil => sessions = start.sessions

\* MFA.Delete returned no error and the session store was asked once.
C7_Witness ==
    /\ pc = "idle"
    /\ delRet = Nil
    /\ Cardinality(CallsTo("krs.Delete")) = 1
    /\ sessions # start.sessions

\* MFA.Add failed after device.Add had stored the secret.
FailedAfterAdd ==
    /\ cmd.kind = "register"
    /\ IsErr(addRet)
    /\ \E i \in CallsTo("device.Add") : calls[i].res = "ok"

\* C8: when device.Add succeeded and a later step of MFA.Add fails, MFA.Add
\* returns an error that carries the cause, no device.Delete, remote delete or
\* remote deactivate call is made, the entry is still on the device and the
\* remote device still exists without being enabled.
C8_NoRollback ==
    FailedAfterAdd =>
        /\ addRet.cause = calls[Len(calls)].res
        /\ ret = addRet
        /\ CallsTo("device.Delete") = {}
        /\ CallsTo("DeleteVirtualMFADevice") = {}
        /\ CallsTo("DeactivateMFADevice") = {}
        /\ [name |-> SerialToName(serial).name, secret |-> secret] \in ykEntries
        /\ \E d \in iamDevices : d.serial = serial
        /\ \A e \in iamEnabled : e.serial # serial

\* The remote enable call failed after device.Add had succeeded.
C8_Witness ==
    /\ FailedAfterAdd
    /\ calls[Len(calls)].op = "EnableMFADevice"
    /\ addRet.step = "enable"

\* C9: MFA.Delete returns no error when no device was ever enrolled, and
\* when the MFA.Add before it for the same user failed at any step, as long
\* as no collaborator reports more than that something is gone already.
C9_TeardownAfterFailedEnroll ==
    (/\ TeardownReturned
     /\ NothingWentWrong
     /\ \/ prev.kind = "none"
        \/ /\ prev.kind = "register"
           /\ prev.Add # "nil"
           /\ prev.Username = cmd.Username)
        => delRet = Nil

\* C10: MFA.Delete for a user after a successful MFA.Add for that user
\* deactivates and deletes the serial the create call returned, and removes
\* from the device the name under which the secret was added.
C10_SameIdentifier ==
    (/\ cmd.kind = "remove"
     /\ prev.kind = "register"
     /\ prev.Add = "nil"
     /\ prev.Username = cmd.Username)
        => /\ \A i \in CallsTo("DeactivateMFADevice") \cup CallsTo("DeleteVirtualMFADevice") :
                  calls[i].arg = prev.serial
           /\ \A i \in CallsTo("device.Delete") :
                  calls[i].arg = SerialToName(prev.serial).name

\* The steps Yubikey.Register and Yubikey.Remove take themselves, besides
\* MFA.Add and MFA.Delete.
OrchestratorSteps ==
    {"Retrieve", "NewSession", "GetUsernameFromSession", "yubikey.New", "krs.Delete"}

\* C11: Yubikey.Register and Yubikey.Remove return no error only if every
\* step succeeded (for Register the credentials, the session, the user name,
\* the device and MFA.Add; for Remove the session, the device, MFA.Delete and
\* the session store's delete); a step that fails is the last step taken and
\* its error is what the command returns.
C11_NoPartialSuccess ==
    /\ ret = Nil =>
           /\ \A i \in 1..Len(calls) :
                  calls[i].op \in OrchestratorSteps => calls[i].res = "ok"
           /\ cmd.kind = "register" => addRet = Nil
           /\ cmd.kind = "remove" => delRet = Nil
    /\ \A i \in 1..Len(calls) :
           (calls[i].op \in OrchestratorSteps /\ calls[i].res # "ok")
               => /\ i = Len(calls)
                  /\ ret = Err(calls[i].op, calls[i].res)
    /\ (IsErr(addRet) \/ IsErr(delRet))
           => /\ ret = (IF cmd.kind = "register" THEN addRet ELSE delRet)
              /\ pc = "idle"

\* The text s holds the text sub.
Contains(s, sub) == Index(s, sub) # 0

\* C12: nothing Yubikey.Register or MFA.Add writes to the terminal or the log
\* holds the secret, in its base32 form either; of what is derived from the
\* secret only the two one-time codes are written.
C12_SecretNeverShown ==
    (cmd.kind = "register" /\ secret # <<>>) =>
        \A i \in 1..Len(out) :
            /\ ~Contains(out[i].text, EncodeToString(secret))
            /\ \A k \in 1..Len(out[i].codes) : out[i].codes[k] \in {otp1, otp2}

\* An identifier of an IAM user: an ARN whose partition, service, region and
\* account hold no "/" and whose resource starts with "user/".
WellFormedUser(u) ==
    LET a == arnParse(u)
    IN  /\ a.ok
        /\ \A k \in 2..5 : Index(a.sections[k], <<"/">>) = 0
        /\ HasPrefix(<<":">> \o a.sections[6], userSegment)

\* C13: for a well-formed user identifier u, callerIdentityToSerial succeeds,
\* puts ":mfa/" where the ":user/" of u was, and replacing the first ":mfa/"
\* of the result by ":user/" gives u again.
C13_RoundTrip ==
    (pc = "codec_done" /\ WellFormedUser(cmd.caller)) =>
        /\ ret = Nil
        /\ Index(serial, mfaSegment) = Index(cmd.caller, userSegment)
        /\ serial # cmd.caller
        /\ Replace1(serial, mfaSegment, userSegment) = cmd.caller

\* A user identifier whose path holds both segments again was converted.
C13_Witness ==
    /\ pc = "codec_done"
    /\ WellFormedUser(cmd.caller)
    /\ cmd.caller = accountArn \o userSegment \o mfaSegment \o userSegment \o <<"a">>
    /\ serial = accountArn \o mfaSegment \o mfaSegment \o userSegment \o <<"a">>

\* The parts of "otpauth://totp/<label>?secret=<secret>&issuer=<issuer>".
ParseURI(uri) ==
    LET q == Index(uri, uriSecret)
        a == Index(uri, uriIssuer)
    IN  IF ~HasPrefix(uri, uriScheme) \/ q = 0 \/ a < q
        THEN [ok |-> FALSE, label |-> <<>>, secret |-> <<>>, issuer |-> <<>>]
        ELSE [ok |-> TRUE,
              label |-> SubSeq(uri, Len(uriScheme) + 1, q - 1),
              secret |-> SubSeq(uri, q + Len(uriSecret), a - 1),
              issuer |-> SubSeq(uri, a + Len(uriIssuer), Len(uri))]

\* C14: the URI drawn as a QR code is otpauth://totp/<label>?secret=<s>&issuer=<i>
\* where <label> is the name under which the secret was added to the device,
\* <i> is the issuer that name starts with, and <s> is the base32 form of the
\* secret decoded in MFA.create.
C14_EnrollmentURI ==
    \A k \in 1..Len(out) :
        out[k].what = "qr" =>
            LET u == ParseURI(out[k].text)
            IN  /\ u.ok
                /\ DecodeString(u.secret) = [ok |-> TRUE, bytes |-> secret]
                /\ \E j \in CallsTo("device.Add") : calls[j].arg = u.label
                /\ u.label = SerialToName(serial).name
                /\ u.issuer = issuer
                /\ HasPrefix(u.label, u.issuer \o <<":">>)

\* The calls of MFA.Add in the order the code makes them, GetOTP twice.
EnrollOrder ==
    <<"CreateVirtualMFADevice", "device.Add", "device.GetOTP", "device.GetOTP",
      "EnableMFADevice">>
EnrollCalls == {i \in 1..Len(calls) : \E k \in 1..Len(EnrollOrder) : calls[i].op = EnrollOrder[k]}

\* C15: the calls of MFA.Add come in the order remote create, device.Add,
\* device.GetOTP for the clock reading, device.GetOTP for a clock reading plus
\* 30 seconds, remote enable, each made only after all before it succeeded,
\* the secret being decoded from the created device's seed before device.Add;
\* the enable call is the last one and carries the serial the create call
\* returned, the user name given to MFA.Add, the code of the first GetOTP as
\* code 1 and the code of the second as code 2.
C15_EnrollOrder ==
    cmd.kind = "register" =>
        LET first == CHOOSE i \in EnrollCalls : \A j \in EnrollCalls : i <= j
        IN  \A i \in EnrollCalls :
                LET k == i - first + 1
                IN  /\ k <= Len(EnrollOrder)
                    /\ calls[i].op = EnrollOrder[k]
                    /\ i > first => calls[i - 1].res = "ok"
                    /\ k = 1 => calls[i].user = cmd.Username
                    /\ k = 2 => /\ \E d \in iamDevices :
                                      /\ d.serial = createdSerial(cmd.Username)
                                      /\ DecodeString(d.seed) = [ok |-> TRUE, bytes |-> secret]
                                /\ calls[i].res = "ok" =>
                                      [name |-> calls[i].arg, secret |-> secret] \in ykEntries
                    /\ (k = 3 /\ i = Len(calls)) => calls[i].at = clock
                    /\ k = 4 => calls[i].at = clock + otpStep
                    /\ k = 5 => /\ i = Len(calls)
                                /\ calls[i].arg = createdSerial(calls[first].user)
                                /\ calls[i].user = cmd.Username
                                /\ calls[i].code1 = TOTP(secret, calls[i - 2].at)
                                /\ calls[i].code2 = TOTP(secret, calls[i - 1].at)

\* The remote enable call was made with the codes of two windows, and accepted.
C15_Witness ==
    /\ cmd.kind = "register"
    /\ \E i \in CallsTo("EnableMFADevice") :
           /\ calls[i].res = "ok"
           /\ calls[i].code1.window + 1 = calls[i].code2.window
           /\ calls[i].code1.secret = secret
    /\ addRet = Nil

\* The remote create call of the running MFA.Add failed; it succeeded but
\* handed out a seed that is not base32.
CreateFailed ==
    \E i \in CallsTo("CreateVirtualMFADevice") : calls[i].res # "ok"
DecodeFailed ==
    /\ \E i \in CallsTo("CreateVirtualMFADevice") : calls[i].res = "ok"
    /\ \E d \in iamDevices :
           d.serial = createdSerial(cmd.Username) /\ ~DecodeString(d.seed).ok

\* C16: when the remote create call fails or the seed does not decode,
\* MFA.Add returns an error naming that step, which Register returns; the
\* create call is the last call made (no device.Add, device.GetOTP or remote
\* enable call) and the device's entries are as the command found them.
C16_FailedCreateLeavesDevice ==
    (cmd.kind = "register" /\ (CreateFailed \/ DecodeFailed)) =>
        /\ IsErr(addRet)
        /\ addRet.step = (IF CreateFailed THEN "create" ELSE "decode")
        /\ ret = addRet
        /\ calls[Len(calls)].op = "CreateVirtualMFADevice"
        /\ CallsTo("device.Add") = {}
        /\ CallsTo("device.GetOTP") = {}
        /\ CallsTo("EnableMFADevice") = {}
        /\ ykEntries = start.ykEntries
        /\ iamEnabled = start.iamEnabled

\* The seed did not decode while the device held an entry from before.
C16_Witness ==
    /\ cmd.kind = "register"
    /\ DecodeFailed
    /\ addRet = Err("decode", "CorruptInputError")
    /\ start.ykEntries # {}
    /\ ykEntries = start.ykEntries

\* "aws:" in front of an identifier.
DisplayIdentity(sn) == <<"a", "w", "s", ":">> \o sn

\* C17: the name given to device.Add and to both device.GetOTP calls of one
\* MFA.Add is "aws:" followed by the serial the create call returned; the
\* name given to device.Delete in one MFA.Delete is "aws:" followed by the
\* serial given to the remote deactivate and delete calls before it.
C17_DisplayIdentity ==
    /\ \A i \in CallsTo("device.Add") \cup CallsTo("device.GetOTP") :
           /\ serial = createdSerial(cmd.Username)
           /\ \E j \in CallsTo("CreateVirtualMFADevice") : j < i /\ calls[j].res = "ok"
           /\ calls[i].arg = DisplayIdentity(serial)
    /\ \A i \in CallsTo("device.Delete") :
           /\ calls[i].arg = DisplayIdentity(serial)
           /\ \E j \in CallsTo("DeactivateMFADevice") : j < i /\ calls[j].arg = serial
           /\ \E j \in CallsTo("DeleteVirtualMFADevice") : j < i /\ calls[j].arg = serial

\* The entry added by the MFA.Add before was removed under the same name.
C17_Witness ==
    /\ cmd.kind = "remove"
    /\ prev.kind = "register"
    /\ prev.Add = "nil"
    /\ \E i \in CallsTo("device.Delete") :
           /\ calls[i].res = "ok"
           /\ calls[i].arg = DisplayIdentity(prev.serial)

\* sn is the device form of the identity id: id with its ":user/" replaced
\* by ":mfa/", the resource of an MFA device.
DeviceForm(sn, id) ==
    /\ Index(id, userSegment) # 0
    /\ sn = SubSeq(id, 1, Index(id, userSegment) - 1) \o mfaSegment
                \o SubSeq(id, Index(id, userSegment) + Len(userSegment), Len(id))
    /\ arnParse(sn).ok
    /\ HasPrefix(<<":">> \o arnParse(sn).sections[6], mfaSegment)

\* C18: for the identity the security-token service reports,
\* callerIdentityToSerial fails (the identity is no ARN) or gives its device
\* form; the remote deactivate and delete calls of MFA.Delete are made with
\* the device form of the caller identity only.
C18_DeviceFormOnly ==
    cmd.kind = "remove" =>
        /\ (IsErr(delRet) /\ delRet.step = "callerIdentityToSerial")
               => ~arnParse(cmd.caller).ok
        /\ serial # NoString => DeviceForm(serial, cmd.caller)
        /\ \A i \in CallsTo("DeactivateMFADevice") \cup CallsTo("DeleteVirtualMFADevice") :
               DeviceForm(calls[i].arg, cmd.caller)

\* C19: once MFA.Delete returned no error, Yubikey.Remove returns no error
\* when the session store's delete succeeds, whether it reports 0, 1 or more
\* deleted sessions, and returns that call's error when it fails.
C19_CountNeverFails ==
    \A i \in CallsTo("krs.Delete") :
        /\ delRet = Nil
        /\ calls[i].at \in 0..MaxSessions
        /\ calls[i].res = "ok" => ret = Nil
        /\ calls[i].res # "ok" => ret = Err("krs.Delete", calls[i].res)

\* More than one session was reported deleted and Remove returned no error.
C19_Witness ==
    /\ cmd.kind = "remove"
    /\ ret = Nil
    /\ \E i \in CallsTo("krs.Delete") : calls[i].at > 1 /\ calls[i].res = "ok"
    /\ \E k \in 1..Len(out) : out[k].what = "deleted sessions" /\ out[k].n > 1

\* The remote calls of MFA.Add and of MFA.Delete.
EnrollRemote == {"CreateVirtualMFADevice", "EnableMFADevice"}
TeardownRemote == {"GetCallerIdentity", "DeactivateMFADevice", "DeleteVirtualMFADevice"}

\* C20: one MFA.Add makes the remote create call and the remote enable call
\* at most once each, one MFA.Delete makes the get-caller-identity, deactivate
\* and delete calls at most once each; a remote call that failed (other than
\* with the tolerated NoSuchEntity of deactivate and delete) is the last call
\* of the command, which has returned that step's error.
C20_NoRetry ==
    /\ \A op \in EnrollRemote \cup TeardownRemote : Cardinality(CallsTo(op)) <= 1
    /\ \A i \in 1..Len(calls) :
           (/\ calls[i].op \in EnrollRemote \cup TeardownRemote
            /\ calls[i].res # "ok"
            /\ ~(calls[i].op \in {"DeactivateMFADevice", "DeleteVirtualMFADevice"}
                    /\ calls[i].res = "NoSuchEntity"))
               => /\ i = Len(calls)
                  /\ pc = "idle"
                  /\ IsErr(ret)
                  /\ ret.cause = calls[i].res
                  /\ ret = (IF calls[i].op \in EnrollRemote THEN addRet ELSE delRet)

\* The remote enable call failed and nothing was called after it.
C20_Witness ==
    /\ cmd.kind = "register"
    /\ Cardinality(CallsTo("EnableMFADevice")) = 1
    /\ calls[Len(calls)].op = "EnableMFADevice"
    /\ calls[Len(calls)].res = "AccessDenied"
    /\ pc = "idle"
    /\ IsErr(ret)

\* C21: whenever MFA.Delete has returned no error, the device with the serial
\* it worked on is not enabled for the user, does not exist in the remote
\* system, and the OTP device holds no entry under "aws:" and that serial,
\* whatever the command found when it started.
C21_TeardownPostcondition ==
    (cmd.kind = "remove" /\ delRet = Nil) =>
        /\ serial # NoString
        /\ [user |-> cmd.Username, serial |-> serial] \notin iamEnabled
        /\ \A e \in iamEnabled : e.serial # serial
        /\ \A d \in iamDevices : d.serial # serial
        /\ \A e \in ykEntries : e.name # DisplayIdentity(serial)

\* MFA.Delete returned no error for a device that was enabled, existed and
\* had its entry when the command started.
C21_Witness ==
    /\ cmd.kind = "remove"
    /\ delRet = Nil
    /\ [user |-> cmd.Username, serial |-> serial] \in start.iamEnabled
    /\ \E d \in start.iamDevices : d.serial = serial
    /\ \E e \in start.ykEntries : e.name = DisplayIdentity(serial)
    /\ iamEnabled = {}
    /\ iamDevices = {}
    /\ ykEntries = {}

\* The remote enable call of the running MFA.Add succeeded.
EnableSucceeded == \E i \in CallsTo("EnableMFADevice") : calls[i].res = "ok"

\* C22: MFA.Add returns a serial and a secret exactly when its remote enable
\* call succeeded, and then the created serial and the decoded secret; with
\* an error it returns neither. Yubikey.Register draws the QR code only after
\* MFA.Add returned without error, the device being enabled for the user.
C22_ReturnedOnlyWhenEnabled ==
    cmd.kind = "register" =>
        /\ addRet = NotReturned => added = NoAdded
        /\ addRet # NotReturned =>
               /\ added # NoAdded <=> EnableSucceeded
               /\ addRet = Nil <=> EnableSucceeded
               /\ added # NoAdded =>
                      /\ added.serial = createdSerial(cmd.Username)
                      /\ added.secret = secret
                      /\ added.secret # <<>>
        /\ \A k \in 1..Len(out) :
               out[k].what = "qr" =>
                   /\ addRet = Nil
                   /\ EnableSucceeded
                   /\ [user |-> cmd.Username, serial |-> added.serial] \in iamEnabled
                   /\ ParseURI(out[k].text).secret = EncodeToString(added.secret)

\* The QR code was drawn after a successful enable call.
C22_Witness ==
    /\ cmd.kind = "register"
    /\ EnableSucceeded
    /\ added = [serial |-> serial, secret |-> secret]
    /\ added # NoAdded
    /\ \E k \in 1..Len(out) : out[k].what = "qr"
    /\ ret = Nil

=============================================================================
